---- MODULE Spec2Model ----
(***************************************************************************)
(* Model of adguardhome-sync's AdGuardHome API client                       *)
(* (pkg/client/client.go) and of the reconciliation run that drives it.    *)
(*                                                                         *)
(* Strings that the code parses (the instance URL, the value of            *)
(* REDIRECT_POLICY_NO_OF_REDIRECTS) are sequences of one-character         *)
(* strings, so that url.Parse and strconv.Atoi are computed, not assumed.  *)
(***************************************************************************)
EXTENDS Integers, Sequences, FiniteSets, TLC

VARIABLES
    cl,         \* the client New returned: its redirect policy and UserInfo
    call,       \* the last call on the client interface and what it returned
    contacted,  \* TRUE once any HTTP request was issued to the instance
    origin,     \* the origin appliance's configuration
    replicas,   \* each replica appliance's configuration
    inst,       \* each replica's Instance: its configuration and policies
    runsLeft,   \* the number of runs that follow the run in progress
    phase,      \* "idle", "running", "aborted" (no origin snapshot), "finished"
    osnap,      \* the origin snapshot of the run
    ofetches,   \* origin fetches made in this run
    workers,    \* each replica worker's progress and record in this run
    prev        \* each replica worker's record of the run before

clientVars == <<cl, call, contacted>>

engineVars == <<origin, replicas, inst, runsLeft, phase, osnap, ofetches, workers, prev>>

vars == <<cl, call, contacted, origin, replicas, inst, runsLeft, phase, osnap, ofetches, workers, prev>>

Nil == "nil"

\* ------------------------------------------------------------------ bounds

\* Largest number of items handed to one batch mutation.
MaxBatch == 3

\* Number of replica instances of a run.
NumReplicas == 2

\* ------------------------------------------------------- strings and parsing

Digits == {"0", "1", "2", "3", "4", "5", "6", "7", "8", "9"}

DigitVal(c) ==
    CASE c = "0" -> 0 [] c = "1" -> 1 [] c = "2" -> 2 [] c = "3" -> 3
      [] c = "4" -> 4 [] c = "5" -> 5 [] c = "6" -> 6 [] c = "7" -> 7
      [] c = "8" -> 8 [] c = "9" -> 9

RECURSIVE DecVal(_)
DecVal(s) == IF s = <<>> THEN 0 ELSE 10 * DecVal(SubSeq(s, 1, Len(s) - 1)) + DigitVal(s[Len(s)])

\* strconv.Atoi: an optional sign followed by at least one decimal digit.
AtoiBody(s) == IF s # <<>> /\ s[1] \in {"+", "-"} THEN Tail(s) ELSE s

AtoiOk(s) == AtoiBody(s) # <<>> /\ \A i \in 1..Len(AtoiBody(s)) : AtoiBody(s)[i] \in Digits

Atoi(s) == IF s # <<>> /\ s[1] = "-" THEN 0 - DecVal(AtoiBody(s)) ELSE DecVal(AtoiBody(s))

\* fmt.Sprintf("%s/control", URL) or fmt.Sprintf("%s/%s", URL, APIPath)
ControlPath == <<"c">>

ApiURL(config) ==
    IF config.APIPath = <<>> THEN config.URL \o <<"/">> \o ControlPath
    ELSE config.URL \o <<"/">> \o config.APIPath

\* url.Parse rejects a control character anywhere, a missing scheme before
\* the first colon, and a percent sign that does not start an escape.
CtlChar == "\n"

HexChars == Digits \cup {"a", "c"}

UrlParseOk(s) ==
    /\ \A i \in 1..Len(s) : s[i] # CtlChar
    /\ ~(s # <<>> /\ s[1] = ":")
    /\ \A i \in 1..Len(s) :
          s[i] = "%" => (i + 2 <= Len(s) /\ s[i + 1] \in HexChars /\ s[i + 2] \in HexChars)

\* -------------------------------------------------------------------- New

EnvUnset == [set |-> FALSE, v |-> <<>>]

EnvSet(v) == [set |-> TRUE, v |-> v]

NoRedirectPolicy == [kind |-> "NoRedirect", n |-> 0]

FlexibleRedirectPolicy(n) == [kind |-> "Flexible", n |-> n]

\* resty's Client.UserInfo: nil unless SetBasicAuth was called.
NoUserInfo == [isNil |-> TRUE, Username |-> "", Password |-> ""]

UserInfoOf(config) ==
    IF config.Username # "" /\ config.Password # ""
    THEN [isNil |-> FALSE, Username |-> config.Username, Password |-> config.Password]
    ELSE NoUserInfo

NoClient == [built |-> FALSE, policy |-> NoRedirectPolicy, UserInfo |-> NoUserInfo]

\* New without the check of strconv.Atoi's error: the value is used as parsed.
NewIgnoringAtoiError(config, env) ==
    IF ~UrlParseOk(ApiURL(config)) THEN [err |-> "url", client |-> NoClient]
    ELSE IF env.set
    THEN [err |-> Nil,
          client |-> [built |-> TRUE,
                      policy |-> FlexibleRedirectPolicy(IF AtoiOk(env.v) THEN Atoi(env.v) ELSE 0),
                      UserInfo |-> UserInfoOf(config)]]
    ELSE [err |-> Nil,
          client |-> [built |-> TRUE, policy |-> NoRedirectPolicy,
                      UserInfo |-> UserInfoOf(config)]]

New(config, env) ==
    IF ~UrlParseOk(ApiURL(config)) THEN [err |-> "url", client |-> NoClient]
    ELSE IF env.set /\ ~AtoiOk(env.v) THEN [err |-> "env", client |-> NoClient]
    ELSE [err |-> Nil,
          client |-> [built |-> TRUE,
                      policy |-> IF env.set THEN FlexibleRedirectPolicy(Atoi(env.v))
                                 ELSE NoRedirectPolicy,
                      UserInfo |-> UserInfoOf(config)]]

\* ------------------------------------------------------ the HTTP exchange

StatusOK == 200

StatusFound == 302

InstallPage == <<"install.html">>

\* What the appliance (or the network) answers to one HTTP request: no
\* response at all, or a status with a Location header and a body that is
\* valid JSON for the expected result type ("ok") or is not ("bad").
NetErr == [net |-> TRUE, status |-> 0, loc |-> <<>>, json |-> "ok"]

Resp(status, loc, json) == [net |-> FALSE, status |-> status, loc |-> loc, json |-> json]

Responses ==
    {NetErr, Resp(StatusOK, <<>>, "ok"), Resp(StatusOK, <<>>, "bad"), Resp(201, <<>>, "ok"),
     Resp(500, <<>>, "ok"), Resp(StatusFound, InstallPage, "ok"),
     Resp(StatusFound, <<"login.html">>, "ok")}

IsRedirect(resp) == ~resp.net /\ resp.status = StatusFound /\ resp.loc # <<>>

\* The redirect policy is asked before the request that would follow the
\* via-th response: NoRedirectPolicy always refuses, FlexibleRedirectPolicy(n)
\* refuses once the number of requests already made reaches n.
PolicyStops(policy, via) == policy.kind = "NoRedirect" \/ via >= policy.n

\* Paths and Location headers are kept as their sequences of segments.
\* One resty request: chain[i] answers the i-th HTTP request of the exchange.
\* A refused redirect returns the redirect response together with an error;
\* a 2xx response whose body does not decode into the result returns an error.
RECURSIVE RestyWalk(_, _, _, _)
RestyWalk(policy, hasResult, chain, i) ==
    LET resp == chain[i] IN
    IF resp.net THEN [err |-> "transport", resp |-> resp, hops |-> i]
    ELSE IF IsRedirect(resp)
    THEN IF PolicyStops(policy, i) THEN [err |-> "redirect", resp |-> resp, hops |-> i]
         ELSE IF i < Len(chain) THEN RestyWalk(policy, hasResult, chain, i + 1)
         ELSE [err |-> "cut", resp |-> resp, hops |-> i]
    ELSE IF hasResult /\ resp.status \in 200..299 /\ resp.json = "bad"
    THEN [err |-> "decode", resp |-> resp, hops |-> i]
    ELSE [err |-> Nil, resp |-> resp, hops |-> i]

RestyExecute(policy, hasResult, chain) == RestyWalk(policy, hasResult, chain, 1)

\* The exchanges a client with this policy can have: every response but the
\* last was a redirect the policy let the client follow.
MaxHops(policy) == IF policy.kind = "Flexible" /\ policy.n > 1 THEN policy.n ELSE 1

Chains(policy, hasResult) ==
    {c \in UNION {[1..k -> Responses] : k \in 1..MaxHops(policy)} :
        LET w == RestyExecute(policy, hasResult, c) IN w.err # "cut" /\ w.hops = Len(c)}

\* A mutation sets no result, so the body of its response is never decoded:
\* its exchanges are told apart by status and Location alone.
PostChains(policy) ==
    {c \in Chains(policy, FALSE) : \A i \in 1..Len(c) : c[i].json = "ok"}

NoBody == [kind |-> "none"]

\* The HTTP requests of one exchange: the request itself, then one GET per
\* followed redirect, to the Location of the previous response.
Requests(method, path, body, auth, chain) ==
    [i \in 1..Len(chain) |->
        IF i = 1 THEN [method |-> method, path |-> path, body |-> body, auth |-> auth]
        ELSE [method |-> "GET", path |-> chain[i - 1].loc, body |-> NoBody, auth |-> auth]]

\* doGet that reports every failed request as a plain error.
doGetNoSetupSignal(c, chain) ==
    LET r == RestyExecute(c.policy, TRUE, chain) IN
    IF r.err # Nil THEN "error"
    ELSE IF r.resp.status # StatusOK THEN "error"
    ELSE Nil

\* doGet that accepts every 2xx status.
doGetAny2xx(c, chain) ==
    LET r == RestyExecute(c.policy, TRUE, chain) IN
    IF r.err # Nil
    THEN IF r.resp.status = StatusFound /\ r.resp.loc = InstallPage
         THEN "ErrSetupNeeded" ELSE "error"
    ELSE IF r.resp.status \notin 200..299 THEN "error"
    ELSE Nil

\* doGet that takes any refused redirect for the setup signal.
doGetAnyRedirect(c, chain) ==
    LET r == RestyExecute(c.policy, TRUE, chain) IN
    IF r.err # Nil
    THEN IF r.resp.status = StatusFound THEN "ErrSetupNeeded" ELSE "error"
    ELSE IF r.resp.status # StatusOK THEN "error"
    ELSE Nil

\* The error doGet returns (Nil: none). resty hands back a non-nil response
\* whenever the request was sent, so the code's resp != nil always holds.
doGet(c, chain) ==
    LET r == RestyExecute(c.policy, TRUE, chain) IN
    IF r.err # Nil
    THEN IF r.resp.status = StatusFound /\ r.resp.loc = InstallPage
         THEN "ErrSetupNeeded" ELSE "error"
    ELSE IF r.resp.status # StatusOK THEN "error"
    ELSE Nil

doPost(c, chain) ==
    LET r == RestyExecute(c.policy, FALSE, chain) IN
    IF r.err # Nil THEN "error"
    ELSE IF r.resp.status # StatusOK THEN "error"
    ELSE Nil

\* The credentials resty puts on a request when it is sent: those set on the
\* request when it has any, otherwise those of the client (SetBasicAuth in
\* New). cl.client.R() makes a request with none of its own.
addCredentials(c, reqUserInfo) == IF ~reqUserInfo.isNil THEN reqUserInfo ELSE c.UserInfo

\* cl.client.R(): a request carries the client's basic-auth credentials.
AuthOf(c) == addCredentials(c, NoUserInfo)

\* ------------------------------------------------------- batch mutations

\* An item of a keyed collection: its key (a rewrite entry's domain and
\* answer, a filter's URL, a client's name, a lease's MAC) and its other
\* data (for a filter: Enabled).
Item(k, d) == [key |-> k, data |-> d]

RECURSIVE Flatten(_)
Flatten(ss) == IF ss = <<>> THEN <<>> ELSE Head(ss) \o Flatten(Tail(ss))

\* The loop that walks the items from the last to the first.
RECURSIVE BatchLoopReversed(_, _, _, _)
BatchLoopReversed(c, n, chains, posted) ==
    LET j == Len(posted) + 1 IN
    IF j > n THEN [err |-> Nil, posted |-> posted]
    ELSE IF j > Len(chains) THEN [err |-> "cut", posted |-> posted]
    ELSE LET e == doPost(c, chains[j]) IN
         IF e # Nil THEN [err |-> e, posted |-> Append(posted, n + 1 - j)]
         ELSE BatchLoopReversed(c, n, chains, Append(posted, n + 1 - j))

\* for i := range items { err := cl.doPost(...); if err != nil { return err } }
\* return nil.  chains[j] answers the j-th POST of the loop; posted lists the
\* indices of the items posted, in the order of the requests.
RECURSIVE BatchLoop(_, _, _, _)
BatchLoop(c, n, chains, posted) ==
    LET j == Len(posted) + 1 IN
    IF j > n THEN [err |-> Nil, posted |-> posted]
    ELSE IF j > Len(chains) THEN [err |-> "cut", posted |-> posted]
    ELSE LET e == doPost(c, chains[j]) IN
         IF e # Nil THEN [err |-> e, posted |-> Append(posted, j)]
         ELSE BatchLoop(c, n, chains, Append(posted, j))

\* The exchanges a loop over n items can have: it is answered until it returns.
\* Each POST is answered by one of the exchanges in answers.
RECURSIVE BatchRuns(_, _, _, _)
BatchRuns(c, n, chains, answers) ==
    IF BatchLoop(c, n, chains, <<>>).err # "cut" THEN {chains}
    ELSE UNION {BatchRuns(c, n, Append(chains, ch), answers) : ch \in answers}

BatchPost(c, path, bodies, chains) ==
    LET r == BatchLoop(c, Len(bodies), chains, <<>>) IN
    [err |-> r.err, posted |-> r.posted,
     sent |-> Flatten([j \in 1..Len(r.posted) |->
                 Requests("POST", path, bodies[r.posted[j]], AuthOf(c), chains[j])])]

AddRewriteEntries(c, entries, chains) ==
    BatchPost(c, <<"rewrite", "add">>, entries, chains)

DeleteRewriteEntries(c, entries, chains) ==
    BatchPost(c, <<"rewrite", "delete">>, entries, chains)

\* ff := &types.Filter{Name: f.Name, URL: f.URL, Whitelist: whitelist}: the
\* filter's Enabled is not copied, the body carries Go's zero value.
AddFiltersBody(whitelist, f) == [URL |-> f.key, Whitelist |-> whitelist, Enabled |-> FALSE]

\* AddFilters that sends the other list's flag.
AddFiltersOtherList(c, whitelist, filters, chains) ==
    BatchPost(c, <<"filtering", "add_url">>,
              [i \in 1..Len(filters) |-> AddFiltersBody(~whitelist, filters[i])], chains)

AddFilters(c, whitelist, filters, chains) ==
    BatchPost(c, <<"filtering", "add_url">>,
              [i \in 1..Len(filters) |-> AddFiltersBody(whitelist, filters[i])], chains)

DeleteFilters(c, whitelist, filters, chains) ==
    BatchPost(c, <<"filtering", "remove_url">>,
              [i \in 1..Len(filters) |->
                  [URL |-> filters[i].key, Whitelist |-> whitelist, Enabled |-> FALSE]], chains)

UpdateFilters(c, whitelist, filters, chains) ==
    BatchPost(c, <<"filtering", "set_url">>,
              [i \in 1..Len(filters) |->
                  [URL |-> filters[i].key, Whitelist |-> whitelist,
                   Data |-> [URL |-> filters[i].key, Whitelist |-> whitelist,
                             Enabled |-> filters[i].data]]], chains)

AddClients(c, clients, chains) ==
    BatchPost(c, <<"clients", "add">>, clients, chains)

UpdateClients(c, clients, chains) ==
    BatchPost(c, <<"clients", "update">>,
              [i \in 1..Len(clients) |-> [Name |-> clients[i].key, Data |-> clients[i]]], chains)

\* DeleteClients takes the clients' names.
DeleteClients(c, clients, chains) ==
    BatchPost(c, <<"clients", "delete">>,
              [i \in 1..Len(clients) |-> [Name |-> clients[i].key]], chains)

AddDHCPStaticLeases(c, leases, chains) ==
    BatchPost(c, <<"dhcp", "add_static_lease">>, leases, chains)

DeleteDHCPStaticLeases(c, leases, chains) ==
    BatchPost(c, <<"dhcp", "remove_static_lease">>, leases, chains)

BatchOps ==
    {"AddRewriteEntries", "DeleteRewriteEntries", "AddFilters", "DeleteFilters",
     "UpdateFilters", "AddClients", "UpdateClients", "DeleteClients",
     "AddDHCPStaticLeases", "DeleteDHCPStaticLeases"}

FilterOps == {"AddFilters", "DeleteFilters", "UpdateFilters"}

Batch(op, c, whitelist, items, chains) ==
    CASE op = "AddRewriteEntries" -> AddRewriteEntries(c, items, chains)
      [] op = "DeleteRewriteEntries" -> DeleteRewriteEntries(c, items, chains)
      [] op = "AddFilters" -> AddFilters(c, whitelist, items, chains)
      [] op = "DeleteFilters" -> DeleteFilters(c, whitelist, items, chains)
      [] op = "UpdateFilters" -> UpdateFilters(c, whitelist, items, chains)
      [] op = "AddClients" -> AddClients(c, items, chains)
      [] op = "UpdateClients" -> UpdateClients(c, items, chains)
      [] op = "DeleteClients" -> DeleteClients(c, items, chains)
      [] op = "AddDHCPStaticLeases" -> AddDHCPStaticLeases(c, items, chains)
      [] op = "DeleteDHCPStaticLeases" -> DeleteDHCPStaticLeases(c, items, chains)

\* ------------------------------------------------- reads and single posts

ReadPath(op) ==
    CASE op = "Status" -> <<"status">>
      [] op = "RewriteList" -> <<"rewrite", "list">>
      [] op = "SafeBrowsing" -> <<"safebrowsing", "status">>
      [] op = "Filtering" -> <<"filtering", "status">>
      [] op = "Clients" -> <<"clients">>
      [] op = "DHCPStatus" -> <<"dhcp", "status">>

ReadOps == {"Status", "RewriteList", "SafeBrowsing", "Filtering", "Clients", "DHCPStatus"}

\* Every read is doGet on a request with SetResult.
Read(op, c, chain) ==
    [err |-> doGet(c, chain),
     sent |-> Requests("GET", ReadPath(op), NoBody, AuthOf(c), chain)]

ToggleModes == {"safebrowsing", "parental", "safesearch"}

\* toggleBool with the two targets exchanged.
toggleBoolSwapped(c, mode, enable, chain) ==
    [err |-> doPost(c, chain),
     sent |-> Requests("POST", <<mode, IF enable THEN "disable" ELSE "enable">>,
                       NoBody, AuthOf(c), chain)]

toggleBool(c, mode, enable, chain) ==
    [err |-> doPost(c, chain),
     sent |-> Requests("POST", <<mode, IF enable THEN "enable" ELSE "disable">>,
                       NoBody, AuthOf(c), chain)]

ToggleProtection(c, enable, chain) ==
    [err |-> doPost(c, chain),
     sent |-> Requests("POST", <<"dns_config">>, [ProtectionEnabled |-> enable],
                       AuthOf(c), chain)]

\* The initial configuration: fixed web and DNS addresses, and the client's
\* credentials when it has any.
InitialConfiguration(c) ==
    [Web |-> [Ip |-> "0.0.0.0", Port |-> 3000], Dns |-> [Ip |-> "0.0.0.0", Port |-> 53],
     Username |-> IF c.UserInfo.isNil THEN "" ELSE c.UserInfo.Username,
     Password |-> IF c.UserInfo.isNil THEN "" ELSE c.UserInfo.Password]

\* req.UserInfo = nil clears the credentials of the request, which
\* cl.client.R() left empty already: the client's own still apply when the
\* request is sent.
Setup(c, chain) ==
    [err |-> doPost(c, chain),
     sent |-> Requests("POST", <<"install", "configure">>, InitialConfiguration(c),
                       addCredentials(c, NoUserInfo), chain)]

\* ----------------------------------------------------------- the appliance

\* The filter URLs of the model, in fetch order.
FilterURLs == {1, 2}

FilterStates == {"absent", "on", "off"}

\* An appliance's configuration: whether it was provisioned, its blocklist
\* filters (per URL: absent, enabled or disabled) and two scalar settings.
Appliance(installed, filters, sb, prot) ==
    [installed |-> installed, filters |-> filters, safebrowsing |-> sb, protection |-> prot]

NoFilters == [u \in FilterURLs |-> "absent"]

\* An appliance that was never provisioned holds no configuration.
FreshAppliance == Appliance(FALSE, NoFilters, FALSE, FALSE)

Served == <<Resp(StatusOK, <<>>, "ok")>>

Refused == <<Resp(500, <<>>, "ok")>>

ToInstall == <<Resp(StatusFound, InstallPage, "ok")>>

\* How an appliance answers a request: until it is provisioned it redirects
\* every request but the provisioning call to the install page; afterwards it
\* serves the request or fails it.
Answers(app, path) ==
    IF ~app.installed /\ path # <<"install", "configure">> THEN {ToInstall}
    ELSE {Served, Refused}

\* What a served request changes on the appliance. A filter added by URL is
\* stored enabled or disabled as the appliance decides (enabledOnAdd).
Effect(app, req, enabledOnAdd) ==
    CASE req.path = <<"install", "configure">> -> [app EXCEPT !.installed = TRUE]
      [] req.path = <<"filtering", "add_url">> ->
            IF ~req.body.Whitelist /\ app.filters[req.body.URL] = "absent"
            THEN [app EXCEPT !.filters[req.body.URL] = IF enabledOnAdd THEN "on" ELSE "off"]
            ELSE app
      [] req.path = <<"filtering", "remove_url">> ->
            IF ~req.body.Whitelist THEN [app EXCEPT !.filters[req.body.URL] = "absent"]
            ELSE app
      [] req.path = <<"filtering", "set_url">> ->
            IF ~req.body.Whitelist /\ app.filters[req.body.URL] # "absent"
            THEN [app EXCEPT !.filters[req.body.URL] =
                                 IF req.body.Data.Enabled THEN "on" ELSE "off"]
            ELSE app
      [] req.path = <<"safebrowsing", "enable">> -> [app EXCEPT !.safebrowsing = TRUE]
      [] req.path = <<"safebrowsing", "disable">> -> [app EXCEPT !.safebrowsing = FALSE]
      [] req.path = <<"dns_config">> -> [app EXCEPT !.protection = req.body.ProtectionEnabled]
      [] OTHER -> app

\* The appliance after the exchanges of one operation of a client that
\* follows no redirect: sent[j] was answered by chains[j].
RECURSIVE AfterExchanges(_, _, _, _)
AfterExchanges(app, sent, chains, enabledOnAdd) ==
    IF sent = <<>> THEN app
    ELSE AfterExchanges(IF Head(chains) = Served THEN Effect(app, Head(sent), enabledOnAdd)
                        ELSE app,
                        Tail(sent), Tail(chains), enabledOnAdd)

\* ------------------------------------------------------ the reconciliation

Replicas == 1..NumReplicas

GoodURL == <<"h", ":", "/", "/", "a">>

GoodConfig == [URL |-> GoodURL, APIPath |-> <<>>, Username |-> "u", Password |-> "p"]

BadConfig == [URL |-> <<":", "a">>, APIPath |-> <<>>, Username |-> "u", Password |-> "p"]

\* A snapshot: the collections and settings read from one appliance.
Snapshot(app) ==
    [filters |-> app.filters, safebrowsing |-> app.safebrowsing, protection |-> app.protection]

NoSnapshot == Snapshot(FreshAppliance)

KeysOf(filters) == {u \in FilterURLs : filters[u] # "absent"}

RECURSIVE KeySeq(_)
KeySeq(keys) ==
    IF keys = {} THEN <<>>
    ELSE LET k == CHOOSE x \in keys : \A y \in keys : x <= y IN <<k>> \o KeySeq(keys \ {k})

ItemsOf(filters, keys) ==
    LET ks == KeySeq(keys) IN [i \in 1..Len(ks) |-> Item(ks[i], filters[ks[i]] = "on")]

\* The Differ: items to add are keyed in O and not in R, items to delete in R
\* and not in O (none under the protect-additional-entries policy), items to
\* update in both with different data.
ToAdd(O, R) == ItemsOf(O, KeysOf(O) \ KeysOf(R))

ToDelete(O, R, protect) == IF protect THEN <<>> ELSE ItemsOf(R, KeysOf(R) \ KeysOf(O))

ToUpdate(O, R) == ItemsOf(O, {u \in KeysOf(O) \cap KeysOf(R) : O[u] # R[u]})

\* A worker's record of one run.
IdleWorker ==
    [pc |-> "idle", cause |-> "none", rsnap |-> NoSnapshot, fetches |-> 0, setups |-> 0,
     firstSignal |-> FALSE, ops |-> 0, clean |-> TRUE, applied |-> FALSE,
     toggles |-> <<>>]

\* ------------------------------------------------ the client on its own

URLs == {GoodURL, <<":", "a">>, GoodURL \o <<CtlChar>>}

APIPaths == {<<>>, <<"a", "1">>, <<"%", "z", "1">>}

Configs ==
    {c \in [URL : URLs, APIPath : APIPaths, Username : {"", "u"}, Password : {"", "p"}] :
        c.Username = "" => c.Password = ""}

Envs ==
    {EnvUnset} \cup
    {EnvSet(v) : v \in {<<>>, <<"0">>, <<"1">>, <<"2">>, <<"x">>, <<"-", "1">>}}

NoCall == [op |-> "none", args |-> <<>>, chains |-> <<>>, posted |-> <<>>, sent |-> <<>>,
           err |-> Nil]

\* The argument lists of a batch of n items: keys in rising or falling order.
ArgLists(n) ==
    {[i \in 1..n |-> Item(i, i % 2 = 1)], [i \in 1..n |-> Item(n + 1 - i, i % 2 = 0)]}

\* No call changes the client New returned, so what a call does depends on
\* no earlier call. The calls explored are New, then any call, then Setup and
\* any call after it, and so on.
FreshClient == call.op \in {"New", "Setup"}

\* The reconciliation at rest, while the client is exercised on its own.
EngineAtRest ==
    /\ origin = FreshAppliance
    /\ replicas = [r \in Replicas |-> FreshAppliance]
    /\ inst = [r \in Replicas |-> [config |-> GoodConfig, enabled |-> FALSE, protect |-> FALSE]]
    /\ runsLeft = 0
    /\ phase = "finished"
    /\ osnap = NoSnapshot
    /\ ofetches = 0
    /\ workers = [r \in Replicas |-> IdleWorker]
    /\ prev = [r \in Replicas |-> IdleWorker]

ClientAtRest ==
    /\ cl = NoClient
    /\ call = NoCall
    /\ contacted = FALSE

Init ==
    /\ ClientAtRest
    /\ EngineAtRest

CallNew ==
    /\ call.op = "none"
    /\ \E config \in Configs, env \in Envs :
          LET r == New(config, env) IN
          /\ cl' = r.client
          /\ call' = [NoCall EXCEPT !.op = "New", !.args = <<config, env>>, !.err = r.err]
    /\ UNCHANGED contacted
    /\ UNCHANGED engineVars

CallRead ==
    /\ cl.built
    /\ FreshClient
    /\ \E op \in ReadOps, chain \in Chains(cl.policy, TRUE) :
          LET r == Read(op, cl, chain) IN
          /\ call' = [op |-> op, args |-> <<>>, chains |-> <<chain>>, posted |-> <<>>,
                      sent |-> r.sent, err |-> r.err]
          /\ contacted' = TRUE
    /\ UNCHANGED cl
    /\ UNCHANGED engineVars

CallToggle ==
    /\ cl.built
    /\ FreshClient
    /\ \E mode \in ToggleModes \cup {"protection"}, enable \in BOOLEAN,
          chain \in PostChains(cl.policy) :
          LET r == IF mode = "protection" THEN ToggleProtection(cl, enable, chain)
                   ELSE toggleBool(cl, mode, enable, chain) IN
          /\ call' = [op |-> "Toggle", args |-> <<mode, enable>>, chains |-> <<chain>>,
                      posted |-> <<>>, sent |-> r.sent, err |-> r.err]
          /\ contacted' = TRUE
    /\ UNCHANGED cl
    /\ UNCHANGED engineVars

\* Setup is called on a new client or after a read.
CallSetup ==
    /\ cl.built
    /\ call.op \in {"New"} \cup ReadOps
    /\ \E chain \in PostChains(cl.policy) :
          LET r == Setup(cl, chain) IN
          /\ call' = [op |-> "Setup", args |-> <<>>, chains |-> <<chain>>,
                      posted |-> <<>>, sent |-> r.sent, err |-> r.err]
          /\ contacted' = TRUE
    /\ UNCHANGED cl
    /\ UNCHANGED engineVars

\* One batch mutation, from its call to its return. The exchanges are those
\* of the POSTs the loop made: none is invented for an item it never posted.
CallBatch ==
    /\ cl.built
    /\ FreshClient
    /\ \E op \in BatchOps, n \in 0..MaxBatch :
       \E items \in ArgLists(n),
          whitelist \in (IF op \in FilterOps THEN BOOLEAN ELSE {FALSE}),
          chains \in BatchRuns(cl, n, <<>>, PostChains(cl.policy)) :
          LET r == Batch(op, cl, whitelist, items, chains) IN
          /\ call' = [op |-> op, args |-> items, chains |-> chains, posted |-> r.posted,
                      sent |-> r.sent, err |-> r.err]
          /\ contacted' = (contacted \/ r.sent # <<>>)
    /\ UNCHANGED cl
    /\ UNCHANGED engineVars

NextClient == CallNew \/ CallRead \/ CallToggle \/ CallSetup \/ CallBatch

SpecClient == Init /\ [][NextClient]_vars

\* ------------------------------------------------------- one run, two runs

\* The clients of a run are built with REDIRECT_POLICY_NO_OF_REDIRECTS unset.
ClientOf(config) == New(config, EnvUnset)

\* The Snapshot Fetcher on an appliance: one fetch; on the setup-required
\* signal one provisioning call and one more fetch. Each outcome gives the
\* appliance afterwards, the error (Nil: a snapshot was read), the answer to
\* the first fetch and the calls made.
FetchOutcomes(app, c) ==
    UNION {
        LET e1 == Read("Status", c, ch1).err IN
        IF e1 # "ErrSetupNeeded"
        THEN {[app |-> app, err |-> e1, first |-> ch1, fetches |-> 1, setups |-> 0,
               clean |-> e1 = Nil]}
        ELSE UNION {
            LET s == Setup(c, chS)
                app2 == AfterExchanges(app, s.sent, <<chS>>, TRUE) IN
            {[app |-> app2, err |-> Read("Status", c, ch2).err, first |-> ch1,
              fetches |-> 2, setups |-> 1, clean |-> FALSE] :
                ch2 \in Answers(app2, <<"status">>)}
            : chS \in Answers(app, <<"install", "configure">>)}
        : ch1 \in Answers(app, <<"status">>)}

\* The Applier on the filters of a replica: deletions, then additions, then
\* updates, each batch through the client; a failed batch is recorded and
\* the next one is still applied.
FilterOutcomes(app, c, O, R, protect) ==
    LET del == ToDelete(O, R, protect)
        add == ToAdd(O, R)
        upd == ToUpdate(O, R) IN
    UNION { UNION { UNION { {
        LET rd == DeleteFilters(c, FALSE, del, chD)
            app1 == AfterExchanges(app, rd.sent, chD, enabledOnAdd)
            ra == AddFilters(c, FALSE, add, chA)
            app2 == AfterExchanges(app1, ra.sent, chA, enabledOnAdd)
            ru == UpdateFilters(c, FALSE, upd, chU)
            app3 == AfterExchanges(app2, ru.sent, chU, enabledOnAdd) IN
        [app |-> app3, ops |-> Len(rd.sent) + Len(ra.sent) + Len(ru.sent),
         ok |-> rd.err = Nil /\ ra.err = Nil /\ ru.err = Nil]
        : enabledOnAdd \in BOOLEAN}
        : chU \in BatchRuns(c, Len(upd), <<>>, Answers(app, <<"filtering", "set_url">>))}
        : chA \in BatchRuns(c, Len(add), <<>>, Answers(app, <<"filtering", "add_url">>))}
        : chD \in BatchRuns(c, Len(del), <<>>, Answers(app, <<"filtering", "remove_url">>))}

\* The Toggle Synchronizer on one scalar setting: no call when the replica's
\* value equals the origin's, one call setting the origin's value otherwise.
SettingOutcomes(app, c, setting, want, have) ==
    IF want = have THEN {[app |-> app, calls |-> <<>>]}
    ELSE {LET r == IF setting = "protection" THEN ToggleProtection(c, want, ch)
                   ELSE toggleBool(c, setting, want, ch) IN
          [app |-> AfterExchanges(app, r.sent, <<ch>>, TRUE),
           calls |-> <<[setting |-> setting, want |-> want, have |-> have, sent |-> r.sent,
                        err |-> r.err]>>]
            : ch \in Answers(app, <<setting>>)}

\* Both scalar settings, one after the other; a failed one does not stop the next.
ToggleOutcomes(app, c, O, R) ==
    UNION {
        {[app |-> t2.app, calls |-> t1.calls \o t2.calls] :
            t2 \in SettingOutcomes(t1.app, c, "protection", O.protection, R.protection)}
        : t1 \in SettingOutcomes(app, c, "safebrowsing", O.safebrowsing, R.safebrowsing)}

\* A run that stops working on replicas once one of them has failed.
MayProceedUnlessFailure(r) == \A q \in Replicas : workers[q].pc # "failed"

\* Replicas are isolated: a worker proceeds whatever happened to the others.
MayProceed(r) == TRUE

Final(r) == workers[r].pc \in {"done", "failed"}

\* The origin snapshot is fetched when the run starts.
StartRun ==
    /\ phase = "idle"
    /\ \E o \in FetchOutcomes(origin, ClientOf(GoodConfig).client) :
          /\ origin' = o.app
          /\ ofetches' = ofetches + 1
          /\ IF o.err = Nil
             THEN osnap' = Snapshot(o.app) /\ phase' = "running"
             ELSE osnap' = NoSnapshot /\ phase' = "aborted"
    /\ UNCHANGED <<replicas, inst, runsLeft, workers, prev>>
    /\ UNCHANGED clientVars

ReplicaFetch(r) ==
    /\ phase = "running"
    /\ inst[r].enabled
    /\ workers[r].pc = "idle"
    /\ MayProceed(r)
    /\ LET n == ClientOf(inst[r].config) IN
       IF n.err # Nil
       THEN /\ workers' = [workers EXCEPT ![r] =
                              [@ EXCEPT !.pc = "failed", !.cause = "config", !.clean = FALSE]]
            /\ UNCHANGED replicas
       ELSE \E o \in FetchOutcomes(replicas[r], n.client) :
            /\ replicas' = [replicas EXCEPT ![r] = o.app]
            /\ workers' = [workers EXCEPT ![r] =
                  [@ EXCEPT !.pc = IF o.err = Nil THEN "fetched" ELSE "failed",
                            !.cause = IF o.err = Nil THEN "none"
                                      ELSE IF o.err = "ErrSetupNeeded" THEN "setup"
                                      ELSE "fetch",
                            !.rsnap = IF o.err = Nil THEN Snapshot(o.app) ELSE NoSnapshot,
                            !.fetches = o.fetches,
                            !.setups = o.setups,
                            !.firstSignal = (o.first = ToInstall),
                            !.clean = o.clean]]
    /\ UNCHANGED <<origin, inst, runsLeft, phase, osnap, ofetches, prev>>
    /\ UNCHANGED clientVars

ReplicaFilters(r) ==
    /\ phase = "running"
    /\ workers[r].pc = "fetched"
    /\ MayProceed(r)
    /\ \E o \in FilterOutcomes(replicas[r], ClientOf(inst[r].config).client,
                               osnap.filters, workers[r].rsnap.filters, inst[r].protect) :
          /\ replicas' = [replicas EXCEPT ![r] = o.app]
          /\ workers' = [workers EXCEPT ![r] =
                [@ EXCEPT !.pc = "applied", !.ops = @ + o.ops, !.clean = @ /\ o.ok,
                          !.applied = o.ok]]
    /\ UNCHANGED <<origin, inst, runsLeft, phase, osnap, ofetches, prev>>
    /\ UNCHANGED clientVars

ReplicaToggles(r) ==
    /\ phase = "running"
    /\ workers[r].pc = "applied"
    /\ MayProceed(r)
    /\ \E o \in ToggleOutcomes(replicas[r], ClientOf(inst[r].config).client,
                               osnap, workers[r].rsnap) :
          /\ replicas' = [replicas EXCEPT ![r] = o.app]
          /\ workers' = [workers EXCEPT ![r] =
                [@ EXCEPT !.pc = "done", !.ops = @ + Len(o.calls),
                          !.clean = @ /\ \A i \in 1..Len(o.calls) : o.calls[i].err = Nil,
                          !.toggles = o.calls]]
    /\ UNCHANGED <<origin, inst, runsLeft, phase, osnap, ofetches, prev>>
    /\ UNCHANGED clientVars

\* The run ends when no worker of an enabled replica has a step left, or at
\* once when there is no origin snapshot (recorded as the cause "origin");
\* the next run, if any, starts from there.
EndRun ==
    /\ \/ phase = "aborted"
       \/ phase = "running" /\ \A r \in Replicas : inst[r].enabled => Final(r) \/ ~MayProceed(r)
    /\ LET ended == [r \in Replicas |->
                        IF phase = "running" THEN workers[r]
                        ELSE [workers[r] EXCEPT !.clean = FALSE, !.cause = "origin"]] IN
       IF runsLeft > 0
       THEN /\ runsLeft' = runsLeft - 1
            /\ phase' = "idle"
            /\ prev' = ended
            /\ workers' = [r \in Replicas |-> IdleWorker]
            /\ osnap' = NoSnapshot
            /\ ofetches' = 0
       ELSE /\ phase' = "finished"
            /\ workers' = ended
            /\ UNCHANGED <<runsLeft, prev, osnap, ofetches>>
    /\ UNCHANGED <<origin, replicas, inst>>
    /\ UNCHANGED clientVars

NextRun ==
    \/ StartRun
    \/ \E r \in Replicas : ReplicaFetch(r)
    \/ \E r \in Replicas : ReplicaFilters(r)
    \/ \E r \in Replicas : ReplicaToggles(r)
    \/ EndRun

InstalledAppliances ==
    {Appliance(TRUE, f, sb, pr) : f \in [FilterURLs -> FilterStates], sb \in BOOLEAN,
                                  pr \in BOOLEAN}

EngineIdle ==
    /\ phase = "idle"
    /\ osnap = NoSnapshot
    /\ ofetches = 0
    /\ workers = [r \in Replicas |-> IdleWorker]
    /\ prev = [r \in Replicas |-> IdleWorker]

\* Two consecutive runs on one replica, from every configuration of origin
\* and replica.
InitSync ==
    /\ ClientAtRest
    /\ EngineIdle
    /\ runsLeft = 1
    /\ origin \in InstalledAppliances
    /\ \E app \in InstalledAppliances \cup {FreshAppliance} :
          replicas = [r \in Replicas |-> IF r = 1 THEN app ELSE FreshAppliance]
    /\ \E protect \in BOOLEAN :
          inst = [r \in Replicas |->
                    [config |-> GoodConfig, enabled |-> r = 1, protect |-> protect /\ r = 1]]

SpecSync == InitSync /\ [][NextRun]_vars

\* One run on every replica, each enabled or not, well configured or not,
\* provisioned or not (a replica that is not contacted is left out of the
\* variation); one configuration of the origin.
InitReplicas ==
    /\ ClientAtRest
    /\ EngineIdle
    /\ runsLeft = 0
    /\ origin = Appliance(TRUE, [u \in FilterURLs |-> IF u = 1 THEN "on" ELSE "absent"],
                          TRUE, FALSE)
    /\ replicas \in [Replicas -> {FreshAppliance, Appliance(TRUE, NoFilters, FALSE, FALSE),
                                  Appliance(TRUE, [u \in FilterURLs |-> "off"], TRUE, TRUE)}]
    /\ inst \in [Replicas -> [config : {GoodConfig, BadConfig}, enabled : BOOLEAN,
                              protect : {FALSE}]]
    /\ \A r \in Replicas :
          /\ ~inst[r].enabled => inst[r].config = GoodConfig
          /\ (~inst[r].enabled \/ inst[r].config = BadConfig) => replicas[r].installed

SpecReplicas == InitReplicas /\ [][NextRun]_vars

\* ---------------------------------------------------- claims on the client

IsBatchCall == call.op \in BatchOps

IsReadCall == call.op \in ReadOps

IsPostCall == call.op \in {"Toggle", "Setup"}

InstallRedirect(resp) == ~resp.net /\ resp.status = StatusFound /\ resp.loc = InstallPage

\* The response that ended the exchange of a read or of a single post.
FirstResponse == call.chains[1][1]

LastResponse == call.chains[1][Len(call.chains[1])]

IsPost(req) == req.method = "POST"

PostsSent == SelectSeq(call.sent, IsPost)

BodyKey(body) ==
    IF "key" \in DOMAIN body THEN body.key
    ELSE IF "URL" \in DOMAIN body THEN body.URL
    ELSE body.Name

\* C1 (as claimed): a batch is best-effort: whichever item's call fails,
\* every item of the batch is still attempted, so a batch of n items always
\* makes n posts.
C1_EveryItemAttempted ==
    IsBatchCall => Len(call.posted) = Len(call.args)

\* C2 (as claimed): a read answered with a redirect to the provisioning page
\* returns ErrSetupNeeded whatever the client's redirect policy, and nothing
\* but such a redirect makes a read return ErrSetupNeeded.
C2_SetupSignalForEveryClient ==
    IsReadCall =>
        /\ (InstallRedirect(FirstResponse) => call.err = "ErrSetupNeeded")
        /\ (call.err = "ErrSetupNeeded" => InstallRedirect(LastResponse))

\* C2 (amended): a read returns ErrSetupNeeded when the redirect to the
\* provisioning page is the response its exchange ends with, which it always
\* is for a client without REDIRECT_POLICY_NO_OF_REDIRECTS (it follows no
\* redirect); and a read returns ErrSetupNeeded on no other response.
C2_SetupSignalWhenNotFollowed ==
    IsReadCall =>
        /\ (InstallRedirect(LastResponse) => call.err = "ErrSetupNeeded")
        /\ (cl.policy.kind = "NoRedirect" /\ InstallRedirect(FirstResponse)
               => call.err = "ErrSetupNeeded" /\ Len(call.sent) = 1)
        /\ (call.err = "ErrSetupNeeded" => InstallRedirect(LastResponse))

C2_Witness ==
    /\ IsReadCall
    /\ cl.policy.kind = "NoRedirect"
    /\ InstallRedirect(FirstResponse)
    /\ call.err = "ErrSetupNeeded"

\* C7: a configuration whose API URL does not parse, or an environment whose
\* REDIRECT_POLICY_NO_OF_REDIRECTS is not an integer, makes New return an
\* error and no client; and no request is ever issued without a client.
C7_MalformedConfigIsFatal ==
    /\ call.op = "New" =>
          LET config == call.args[1]
              env == call.args[2] IN
          (~UrlParseOk(ApiURL(config)) \/ (env.set /\ ~AtoiOk(env.v)))
              => call.err # Nil /\ ~cl.built
    /\ ~cl.built => ~contacted /\ call.sent = <<>>

C7_Witness ==
    /\ call.op = "New"
    /\ call.args[1].URL = GoodURL
    /\ call.args[1].APIPath = <<>>
    /\ call.args[2] = EnvSet(<<"x">>)
    /\ call.err = "env"
    /\ ~cl.built

C3_OneProvisioningOneRetry ==
    \A r \in Replicas :
        LET wk == workers[r] IN
        /\ wk.setups <= 1 /\ wk.fetches <= 2
        /\ (wk.pc # "idle" /\ wk.cause # "config") =>
              IF wk.firstSignal THEN wk.setups = 1 /\ wk.fetches = 2
              ELSE wk.setups = 0 /\ wk.fetches = 1
        /\ wk.cause = "setup" =>
              /\ wk.pc = "failed"
              /\ wk.firstSignal
              /\ ~replicas[r].installed
              /\ wk.ops = 0

C3_Witness ==
    /\ workers[1].pc = "failed"
    /\ workers[1].cause = "setup"
    /\ workers[1].setups = 1
    /\ workers[1].fetches = 2

\* C4: once the deletions, additions and updates computed from the origin
\* collection O and the replica collection R were all applied successfully,
\* the replica's keys are O's keys, together with the keys that were only in
\* R when the protect-additional-entries policy is set.
C4_Convergence ==
    \A r \in Replicas :
        (workers[r].pc \in {"applied", "done"} /\ workers[r].applied) =>
            KeysOf(replicas[r].filters) =
                KeysOf(osnap.filters) \cup
                (IF inst[r].protect THEN KeysOf(workers[r].rsnap.filters) ELSE {})

C4_Witness ==
    /\ workers[1].pc = "applied"
    /\ workers[1].applied
    /\ inst[1].protect
    /\ KeysOf(osnap.filters) = {1}
    /\ KeysOf(workers[1].rsnap.filters) = {2}
    /\ KeysOf(replicas[1].filters) = {1, 2}

\* C5 (as claimed): when the first run completed with every call succeeding
\* and the origin did not change, the second run issues no mutating
\* operation.
C5_SecondRunIssuesNothing ==
    \A r \in Replicas :
        (runsLeft = 0 /\ prev[r].pc = "done" /\ prev[r].clean) => workers[r].ops = 0

CallsFor(r, setting) ==
    LET IsFor(c) == c.setting = setting IN SelectSeq(workers[r].toggles, IsFor)

\* C6: when a replica's scalar setting differs from the origin's, exactly one
\* call is issued, a single POST that sets the origin's value (to
\* /<setting>/enable or /<setting>/disable for safebrowsing, with the value
\* in the body of /dns_config for protection), and the replica holds the
\* origin's value once it is served; when the values are equal no call is
\* issued.
C6_OneCallWhenDifferent ==
    \A r \in Replicas :
        workers[r].pc = "done" =>
            /\ LET calls == CallsFor(r, "safebrowsing")
                   want == osnap.safebrowsing IN
               IF want # workers[r].rsnap.safebrowsing
               THEN /\ Len(calls) = 1
                    /\ Len(calls[1].sent) = 1
                    /\ calls[1].sent[1].method = "POST"
                    /\ calls[1].sent[1].path =
                          <<"safebrowsing", IF want THEN "enable" ELSE "disable">>
                    /\ calls[1].err = Nil => replicas[r].safebrowsing = want
               ELSE calls = <<>>
            /\ LET calls == CallsFor(r, "protection")
                   want == osnap.protection IN
               IF want # workers[r].rsnap.protection
               THEN /\ Len(calls) = 1
                    /\ Len(calls[1].sent) = 1
                    /\ calls[1].sent[1].method = "POST"
                    /\ calls[1].sent[1].path = <<"dns_config">>
                    /\ calls[1].sent[1].body.ProtectionEnabled = want
                    /\ calls[1].err = Nil => replicas[r].protection = want
               ELSE calls = <<>>

C6_Witness ==
    /\ workers[1].pc = "done"
    /\ ~osnap.safebrowsing
    /\ workers[1].rsnap.safebrowsing
    /\ Len(workers[1].toggles) = 1
    /\ workers[1].toggles[1].err = Nil
    /\ ~replicas[1].safebrowsing

\* C9: whatever failed while one replica was worked on, every other enabled
\* replica was worked on in the same run: when a run that had its origin
\* snapshot has ended, every enabled replica either went through fetch, diff
\* and apply and the settings, or failed on its own configuration or fetch;
\* and the origin snapshot is fetched exactly once in a run, before any
\* replica is worked on.
C9_ReplicasIsolated ==
    /\ ofetches <= 1
    /\ phase = "running" => ofetches = 1
    /\ \A r \in Replicas :
          /\ workers[r].pc # "idle" => (ofetches = 1 /\ inst[r].enabled)
          /\ (phase = "finished" /\ inst[r].enabled /\ workers[r].cause # "origin") =>
                \/ workers[r].pc = "done" /\ workers[r].fetches >= 1
                \/ /\ workers[r].pc = "failed"
                   /\ workers[r].cause = "config" => inst[r].config = BadConfig
                   /\ workers[r].cause \in {"fetch", "setup"} => workers[r].fetches >= 1

C9_Witness ==
    /\ phase = "finished"
    /\ workers[1].pc = "failed"
    /\ workers[1].cause = "fetch"
    /\ workers[2].pc = "done"
    /\ workers[2].ops = 2

\* ------------------------------------------------ claims on Setup (C11)

ConfiguredUserInfo == UserInfoOf(call.args[1])

CarryAuth(sent, auth) == \A i \in 1..Len(sent) : sent[i].auth = auth

\* C11 (as claimed): Setup's request is sent without basic-auth credentials;
\* its body holds the client's username and password when it has them, the
\* web address 0.0.0.0:3000 and the DNS address 0.0.0.0:53; Setup leaves the
\* client as it was, and the requests of the call after Setup, whether Setup
\* succeeded or failed, carry the credentials the requests before it carried.
C11_SetupWithoutAuthKeepsCredentials ==
    [][/\ call'.op = "Setup" =>
            /\ cl' = cl
            /\ call'.sent # <<>>
            /\ call'.sent[1].method = "POST"
            /\ call'.sent[1].path = <<"install", "configure">>
            /\ call'.sent[1].auth.isNil
            /\ call'.sent[1].body.Web = [Ip |-> "0.0.0.0", Port |-> 3000]
            /\ call'.sent[1].body.Dns = [Ip |-> "0.0.0.0", Port |-> 53]
            /\ call'.sent[1].body.Username = cl.UserInfo.Username
            /\ call'.sent[1].body.Password = cl.UserInfo.Password
            /\ call.op \in ReadOps => CarryAuth(call.sent, cl.UserInfo)
       /\ call.op = "New" /\ cl.built => cl.UserInfo = ConfiguredUserInfo
       /\ call.op = "Setup" /\ call'.op # "Setup" =>
            /\ cl' = cl
            /\ CarryAuth(call'.sent, cl.UserInfo)]_vars

\* What holds of Setup: all of the above, except that its request carries
\* the client's basic-auth credentials like every other request.
C11_SetupKeepsCredentials ==
    [][/\ call'.op = "Setup" =>
            /\ cl' = cl
            /\ call'.sent # <<>>
            /\ call'.sent[1].method = "POST"
            /\ call'.sent[1].path = <<"install", "configure">>
            /\ call'.sent[1].auth = cl.UserInfo
            /\ call'.sent[1].body.Web = [Ip |-> "0.0.0.0", Port |-> 3000]
            /\ call'.sent[1].body.Dns = [Ip |-> "0.0.0.0", Port |-> 53]
            /\ call'.sent[1].body.Username = cl.UserInfo.Username
            /\ call'.sent[1].body.Password = cl.UserInfo.Password
            /\ call.op \in ReadOps => CarryAuth(call.sent, cl.UserInfo)
       /\ call.op = "New" /\ cl.built => cl.UserInfo = ConfiguredUserInfo
       /\ call.op = "Setup" /\ call'.op # "Setup" =>
            /\ cl' = cl
            /\ CarryAuth(call'.sent, cl.UserInfo)]_vars

====
